---- MODULE Spec2Model ----
(***************************************************************************)
(* Notification pipeline of cuet-swe-notification: the HTTP producers that *)
(* enqueue jobs, the BullMQ worker that drains them, and the dispatch      *)
(* service (notificationService.ts) that looks up push tokens, calls the   *)
(* Expo push gateway and aggregates the per-target outcomes.               *)
(***************************************************************************)
EXTENDS Integers, Sequences, FiniteSets, TLC

\* ------------------------------------------------------------------ bounds
MaxQueue == 1        \* jobs waiting in the queue
MaxLen == 2          \* length of an e-mail list given to a dispatch call
MaxBatch == 3        \* length of a notifications array given to a batch call
MaxReqs == 2         \* course-data requests received in one behaviour
MaxChunk == 2        \* explicit chunkSize arguments tried: 1..MaxChunk

\* sendBatchNotifications(notifications, chunkSize = 100)
DefaultChunkSize == 100

\* -------------------------------------------------------------- data sets
Emails == {"a@x.com", "b@x.com"}
Undefined == "undefined"         \* a field the request body does not carry
Titles == {"T"}
Bodies == {"B"}
CourseIds == {"c1"}
Roles == {"student", "teacher"}

QUEUE_EVENTS == [SEND_USER |-> "send-user", SEND_USERS |-> "send-users",
                 SEND_COURSE |-> "send-course", SEND_ROLE |-> "send-role",
                 SEND_BATCH |-> "send-batch"]

SeqsUpTo(S, n) == UNION {[1..k -> S] : k \in 0..n}

\* One element of the notifications array of a batch: an object with the
\* three fields, or null (nul = TRUE), on which notif.email throws.
Notif(e, t, b) == [nul |-> FALSE, email |-> e, title |-> t, body |-> b]
NullNotif == [nul |-> TRUE, email |-> Undefined, title |-> Undefined, body |-> Undefined]
Notifs == {Notif(e, "T", "B") : e \in Emails} \cup {NullNotif}

\* the arrays HTTP requests carry, and the document lists the resolvers'
\* Firestore queries answer with
ReqEmailLists == {<<>>, <<"a@x.com">>, <<"a@x.com", "b@x.com">>}
ReqNotifLists == {<<>>, <<Notif("a@x.com", "T", "B")>>, <<NullNotif>>,
                  <<Notif("a@x.com", "T", "B"), Notif("b@x.com", "T", "B")>>}
DocLists == {<<>>, <<"a@x.com">>, <<"b@x.com">>}

\* ------------------------------------------------------------------ state
VARIABLES
    queue,        \* notification-queue: the waiting jobs, oldest first
    active,       \* the job the worker's handler is running, or NoJob
    finished,     \* the job the last step ended: [state: "completed"/"failed", name, returnvalue]
    resp,         \* the HTTP response written by the last step, or NoResp
    pc,           \* the dispatch call: "idle", "resolve", "fanout", "delay", "returned", "threw"
    mode,         \* which dispatch function runs: "user", "users", "course", "role", "batch"
    arg,          \* the courseId or role the call resolves, else "none"
    snapshot,     \* the resolver's datastore query: [q: "none", "ok", "error"; docs]
    items,        \* the list the fan-out was called with (emailList / notifications)
    chunkSize,    \* the chunkSize argument of a batch call, else 0
    chunks,       \* the chunks of the call (one chunk for a plain fan-out)
    ci,           \* index of the chunk in flight
    slots,        \* one slot per item of the chunk in flight
    allResults,   \* results of the chunks completed so far
    delays,       \* inter-chunk timers this call has waited for
    ret,          \* the value the call returned
    emailUp,      \* whether the e-mail webhook of the deployment is reachable
    enrollments,  \* MongoDB StudentEnrollment rows
    students,     \* MongoDB Student documents
    roleCall,     \* a call of getRole: [parts, email, role], role "pending" before it returns
    reqs,         \* the course-data requests received: each handler's position and locals
    started,      \* how many of them were received
    courses,      \* MongoDB Course documents
    invitations,  \* MongoDB TeacherInvitation documents
    courseTeachers, \* MongoDB CourseTeacher documents
    pushTokens    \* expoPushToken of the MongoDB Student / Teacher documents

queueVars == <<queue, active, finished, resp>>
callVars == <<pc, mode, arg, snapshot, items, chunkSize, chunks, ci, slots, allResults,
              delays, ret>>
dataVars == <<courses, invitations, courseTeachers, pushTokens>>
auxVars == <<roleCall, reqs, started, dataVars>>
envVars == <<emailUp, enrollments, students, auxVars>>
vars == <<queue, active, finished, resp, pc, mode, arg, snapshot, items, chunkSize,
          chunks, ci, slots, allResults, delays, ret, emailUp, enrollments, students,
          auxVars>>

NoJob == [name |-> "none"]
NoResp == [status |-> 0, message |-> "none"]
NoResult == [success |-> FALSE, error |-> "pending"]
NoRet == [kind |-> "none"]
NoSnapshot == [q |-> "none", docs |-> <<>>]
NoFinish == [state |-> "none", name |-> "none", returnvalue |-> NoRet]
NoRoleCall == [parts |-> [lead |-> <<>>, local |-> "empty", domain |-> "none",
                         trail |-> <<>>],
               email |-> <<>>, role |-> "none"]

\* ------------------------------------------------- MongoDB enrollment view
\* getAlreadyEnrolledStudents: the students that exist and whose studentId
\* lies in the union of the closed ranges of the course's enrollment rows.
getAlreadyEnrolledStudents(courseId) ==
    LET studentIds == UNION {r.startId..r.endId :
                               r \in {x \in enrollments : x.course = courseId}}
    IN  {s \in students : s.studentId \in studentIds}

\* ------------------------------------------------------- result aggregation
\* results.filter(r => r.success).length
RECURSIVE CountSuccess(_)
CountSuccess(rs) ==
    IF rs = <<>> THEN 0
    ELSE (IF Head(rs).success THEN 1 ELSE 0) + CountSuccess(Tail(rs))

\* { total, successful, failed: total - successful, results }
Summary(total, results) ==
    [kind |-> "summary", total |-> total, successful |-> CountSuccess(results),
     failed |-> total - CountSuccess(results), results |-> results, error |-> "none"]

\* { total: 0, successful: 0, failed: 0, results: [] } of the empty short-circuit
EmptySummary ==
    [kind |-> "summary", total |-> 0, successful |-> 0, failed |-> 0,
     results |-> <<>>, error |-> "none"]

\* the same with error: String(error), returned by the resolvers' catch
ErrorSummary == [EmptySummary EXCEPT !.error = "resolver"]

\* (variant: the short-circuit test is missing)
IsEmptyTarget_Never(docs) == FALSE

\* if (studentEmails.length === 0) / if (emails.length === 0)
IsEmptyTarget(docs) == Len(docs) = 0

\* (variant: a trailing chunk shorter than chunkSize is not pushed)
RECURSIVE Chunks_DropPartial(_, _)
Chunks_DropPartial(notifications, size) ==
    IF Len(notifications) < size THEN <<>>
    ELSE <<SubSeq(notifications, 1, size)>>
         \o Chunks_DropPartial(SubSeq(notifications, size + 1, Len(notifications)), size)

\* the chunks of sendBatchNotifications: slices [i, i + chunkSize) for
\* i = 0, chunkSize, 2 chunkSize, ... while i < notifications.length
RECURSIVE Chunks(_, _)
Chunks(notifications, size) ==
    IF notifications = <<>> THEN <<>>
    ELSE IF Len(notifications) <= size THEN <<notifications>>
    ELSE <<SubSeq(notifications, 1, size)>>
         \o Chunks(SubSeq(notifications, size + 1, Len(notifications)), size)

\* if (chunks.length > 1) await new Promise(resolve => setTimeout(resolve, 1000)),
\* evaluated after chunk k of n
DelayAfterChunk(k, n) == n > 1

\* ------------------------------------------------------- delivery clients
\* What the Firestore read users/<email> can give getUserPushToken, and what
\* the Expo gateway can answer to axios.post.
TokenLookups == {"missing", "empty", "error", "token"}
GatewayReplies == {"ok", "status-error", "transport", "reject-nullish"}
Null == "null"
Thrown == [success |-> FALSE, error |-> "exception"]

\* getUserPushToken: null when the document is missing, the token field is
\* empty or the read throws; the stored token otherwise.
getUserPushToken(lookup) ==
    IF lookup = "token" THEN "ExponentPushToken" ELSE Null

\* (variant: the status of the gateway's reply is not inspected)
sendPushNotification_IgnoreStatus(reply) ==
    CASE reply \in {"ok", "status-error"} -> [success |-> TRUE, error |-> "none"]
      [] reply = "transport" -> [success |-> FALSE, error |-> "transport"]
      [] OTHER -> Thrown

\* sendPushNotification: success unless the reply carries status 'error' or
\* the request fails; the catch handler reads error.response, so a rejection
\* whose value is null/undefined escapes as a TypeError (Thrown).
sendPushNotification(reply) ==
    CASE reply = "ok" -> [success |-> TRUE, error |-> "none"]
      [] reply = "status-error" -> [success |-> FALSE, error |-> "gateway"]
      [] reply = "transport" -> [success |-> FALSE, error |-> "transport"]
      [] OTHER -> Thrown

\* (variant: the gateway is called whatever the lookup returned)
HasToken_Always(token) == TRUE

\* if (!token) return { success: false, error: 'no-token' }
HasToken(token) == token # Null

\* the outcome sendNotificationToUser returns when no token was found
NoTokenResult == [success |-> FALSE, error |-> "no-token"]

\* the record the catch of sendNotificationToUsers builds for a thrown error
CaughtResult == [success |-> FALSE, error |-> "caught"]

\* (variant: no fan-out catches per item)
CatchesPerItem_None(md) == FALSE

\* whether the fan-out wraps each item's dispatch in try/catch:
\* sendNotificationToUsers does, the chunk loop of sendBatchNotifications and
\* a lone sendNotificationToUser do not
CatchesPerItem(md) == md \in {"users", "course", "role"}

\* --------------------------------------------------------- fan-out engine
\* chunk.map(async ...) runs every callback up to its first await: a null
\* element rejects at notif.email, every other element starts its token
\* lookup. token and reply record what getUserPushToken returned for this
\* item and what the gateway answered; gw counts its gateway calls.
LaunchSlots(chunk) ==
    [i \in 1..Len(chunk) |->
        [st |-> IF chunk[i].nul THEN "rejected" ELSE "lookup",
         email |-> chunk[i].email, token |-> "none", reply |-> "none",
         r |-> NoResult, gw |-> 0]]

InFlight(s) == {i \in 1..Len(s) : s[i].st \in {"lookup", "push"}}

\* the dispatches a call that threw has left running detached
Orphans == IF pc = "threw" THEN Cardinality(InFlight(slots)) ELSE 0

\* Promise.all over chunk k. A rejected callback rejects the whole await.
Launch(k, chs) ==
    LET s == LaunchSlots(chs[k]) IN
    /\ ci' = k
    /\ slots' = s
    /\ IF \E i \in 1..Len(s) : s[i].st = "rejected"
       THEN /\ pc' = "threw"
            /\ ret' = [kind |-> "exception"]
       ELSE /\ pc' = "fanout"
            /\ ret' = NoRet

\* (variant: only the successful items are kept)
Results_OnlySuccessful(s) ==
    SelectSeq([i \in 1..Len(s) |->
                  [email |-> s[i].email, success |-> s[i].r.success, error |-> s[i].r.error]],
              LAMBDA r : r.success)

\* return { email, ...result } per item
Results(s) ==
    [i \in 1..Len(s) |->
        [email |-> s[i].email, success |-> s[i].r.success, error |-> s[i].r.error]]

\* sendNotificationToUser(email, title, body)
sendNotificationToUser(email, title, body) ==
    /\ mode' = "user"
    /\ arg' = "none"
    /\ items' = <<Notif(email, title, body)>>
    /\ chunkSize' = 0
    /\ chunks' = <<items'>>
    /\ snapshot' = NoSnapshot
    /\ allResults' = <<>>
    /\ delays' = 0
    /\ Launch(1, chunks')

\* Promise.all(emailList.map(...)) of sendNotificationToUsers
FanOut(emailList, title, body) ==
    /\ items' = [i \in 1..Len(emailList) |-> Notif(emailList[i], title, body)]
    /\ chunkSize' = 0
    /\ chunks' = <<items'>>
    /\ allResults' = <<>>
    /\ delays' = 0
    /\ Launch(1, chunks')

\* (variant: the last e-mail of the list is not dispatched)
sendNotificationToUsers_DropLast(emailList, title, body) ==
    /\ mode' = "users"
    /\ arg' = "none"
    /\ snapshot' = NoSnapshot
    /\ FanOut(SubSeq(emailList, 1, Len(emailList) - 1), title, body)

\* (variant: an e-mail is dispatched once however often the list holds it)
RECURSIVE Dedup(_)
Dedup(l) ==
    IF l = <<>> THEN <<>>
    ELSE LET d == Dedup(SubSeq(l, 1, Len(l) - 1)) IN
         IF \E i \in 1..Len(d) : d[i] = l[Len(l)] THEN d ELSE Append(d, l[Len(l)])

sendNotificationToUsers_Dedup(emailList, title, body) ==
    /\ mode' = "users"
    /\ arg' = "none"
    /\ snapshot' = [q |-> "given", docs |-> emailList]
    /\ FanOut(Dedup(emailList), title, body)

\* sendNotificationToUsers(emailList, title, body); snapshot keeps the list
\* the caller gave
sendNotificationToUsers(emailList, title, body) ==
    /\ mode' = "users"
    /\ arg' = "none"
    /\ snapshot' = [q |-> "given", docs |-> emailList]
    /\ FanOut(emailList, title, body)

\* sendNotificationToCourseStudents / sendNotificationToUsersByRole: first the
\* datastore query is awaited
StartResolve(md, a) ==
    /\ mode' = md
    /\ arg' = a
    /\ pc' = "resolve"
    /\ items' = <<>>
    /\ chunkSize' = 0
    /\ chunks' = <<>>
    /\ snapshot' = NoSnapshot
    /\ ci' = 0
    /\ slots' = <<>>
    /\ allResults' = <<>>
    /\ delays' = 0
    /\ ret' = NoRet

sendNotificationToCourseStudents(courseId, title, body) == StartResolve("course", courseId)

sendNotificationToUsersByRole(role, title, body) == StartResolve("role", role)

\* sendBatchNotifications(notifications, chunkSize): build the chunks, then
\* run the first one; with no chunk the loop body never runs.
sendBatchNotifications(notifications, size) ==
    /\ mode' = "batch"
    /\ arg' = "none"
    /\ items' = notifications
    /\ chunkSize' = size
    /\ chunks' = Chunks(notifications, size)
    /\ snapshot' = NoSnapshot
    /\ allResults' = <<>>
    /\ delays' = 0
    /\ IF chunks' = <<>>
       THEN /\ pc' = "returned"
            /\ ci' = 0
            /\ slots' = <<>>
            /\ ret' = Summary(Len(notifications), <<>>)
       ELSE Launch(1, chunks')

\* The query of the resolver settles: it throws (caught: zero summary with
\* error), or gives the documents' e-mails; none short-circuits, otherwise
\* the list goes to sendNotificationToUsers.
ResolveSettle ==
    /\ pc = "resolve"
    /\ resp' = NoResp
    /\ finished' = NoFinish
    /\ UNCHANGED <<queue, active, envVars, mode, arg>>
    /\ \/ /\ pc' = "returned"
          /\ snapshot' = [q |-> "error", docs |-> <<>>]
          /\ ret' = ErrorSummary
          /\ UNCHANGED <<items, chunkSize, chunks, ci, slots, allResults, delays>>
       \/ \E docs \in DocLists :
            /\ snapshot' = [q |-> "ok", docs |-> docs]
            /\ IF IsEmptyTarget(docs)
               THEN /\ pc' = "returned"
                    /\ ret' = EmptySummary
                    /\ UNCHANGED <<items, chunkSize, chunks, ci, slots, allResults, delays>>
               ELSE FanOut(docs, "T", "B")

\* await getUserPushToken(email) of item i settles; without a token the item
\* is done, with one axios.post is issued.
LookupSettle(i) ==
    /\ pc = "fanout"
    /\ i \in 1..Len(slots)
    /\ slots[i].st = "lookup"
    /\ \E lookup \in TokenLookups :
         LET token == getUserPushToken(lookup) IN
         slots' = [slots EXCEPT ![i] =
                     IF ~HasToken(token)
                     THEN [@ EXCEPT !.st = "done", !.token = token, !.r = NoTokenResult]
                     ELSE [@ EXCEPT !.st = "push", !.token = token, !.gw = @ + 1]]
    /\ resp' = NoResp
    /\ finished' = NoFinish
    /\ UNCHANGED <<queue, active, envVars, pc, mode, arg, snapshot, items, chunkSize,
                   chunks, ci, allResults, delays, ret>>

\* (variant: a gateway call that failed in transport is made again)
PushSettle_Retry(i) ==
    /\ pc = "fanout"
    /\ i \in 1..Len(slots)
    /\ slots[i].st = "push"
    /\ \E reply \in GatewayReplies \ {"reject-nullish"} :
         IF reply = "transport" /\ slots[i].gw < 2
         THEN slots' = [slots EXCEPT ![i] = [@ EXCEPT !.gw = @ + 1]]
         ELSE slots' = [slots EXCEPT ![i] =
                           [@ EXCEPT !.st = "done", !.reply = reply,
                                     !.r = sendPushNotification(reply)]]
    /\ resp' = NoResp
    /\ finished' = NoFinish
    /\ UNCHANGED <<queue, active, envVars, pc, ret, mode, arg, snapshot, items,
                   chunkSize, chunks, ci, allResults, delays>>

\* the gateway call of item i settles. An exception is caught per item by
\* sendNotificationToUsers; elsewhere the call itself throws.
PushSettle(i) ==
    /\ pc = "fanout"
    /\ i \in 1..Len(slots)
    /\ slots[i].st = "push"
    /\ \E reply \in GatewayReplies :
         LET r == sendPushNotification(reply) IN
         IF r # Thrown
         THEN /\ slots' = [slots EXCEPT ![i] =
                             [@ EXCEPT !.st = "done", !.reply = reply, !.r = r]]
              /\ UNCHANGED <<pc, ret>>
         ELSE IF CatchesPerItem(mode)
         THEN /\ slots' = [slots EXCEPT ![i] =
                             [@ EXCEPT !.st = "done", !.reply = reply, !.r = CaughtResult]]
              /\ UNCHANGED <<pc, ret>>
         ELSE /\ slots' = [slots EXCEPT ![i] =
                             [@ EXCEPT !.st = "rejected", !.reply = reply]]
              /\ pc' = "threw"
              /\ ret' = [kind |-> "exception"]
    /\ resp' = NoResp
    /\ finished' = NoFinish
    /\ UNCHANGED <<queue, active, envVars, mode, arg, snapshot, items, chunkSize,
                   chunks, ci, allResults, delays>>

\* (variant: the await ends as soon as one promise is fulfilled)
AllSettled_First(s) == \E i \in 1..Len(s) : s[i].st = "done"

\* await Promise.all(...): fulfilled when every promise of the chunk is
AllSettled(s) == \A i \in 1..Len(s) : s[i].st = "done"

\* Promise.all resolves: every item of the chunk has its result.
FanoutDone ==
    /\ pc = "fanout"
    /\ AllSettled(slots)
    /\ resp' = NoResp
    /\ finished' = NoFinish
    /\ UNCHANGED <<queue, active, envVars, mode, arg, snapshot, items, chunkSize,
                   chunks, ci, slots, delays>>
    /\ CASE mode = "user" ->
              /\ ret' = [kind |-> "result", success |-> slots[1].r.success,
                         error |-> slots[1].r.error]
              /\ pc' = "returned"
              /\ UNCHANGED allResults
         [] mode \in {"users", "course", "role"} ->
              /\ ret' = Summary(Len(items), Results(slots))
              /\ pc' = "returned"
              /\ allResults' = Results(slots)
         [] OTHER ->
              /\ allResults' = allResults \o Results(slots)
              /\ IF DelayAfterChunk(ci, Len(chunks))
                 THEN /\ pc' = "delay"
                      /\ UNCHANGED ret
                 ELSE /\ pc' = "returned"
                      /\ ret' = Summary(Len(items), allResults')

\* the timer after a chunk fires; the loop goes on to the next chunk or ends
DelayDone ==
    /\ pc = "delay"
    /\ delays' = delays + 1
    /\ resp' = NoResp
    /\ finished' = NoFinish
    /\ UNCHANGED <<queue, active, envVars, mode, arg, snapshot, items, chunkSize,
                   chunks, allResults>>
    /\ IF ci < Len(chunks)
       THEN Launch(ci + 1, chunks)
       ELSE /\ pc' = "returned"
            /\ ret' = Summary(Len(items), allResults)
            /\ UNCHANGED <<ci, slots>>

\* ------------------------------------------------------------ initial state
\* the teachers other than the owner of the course
Teachers == {"t1@x.com", "t2@x.com"}
Owner == "t0@x.com"
CourseNames == {"n1", "n2"}
PushTokens == {"ExponentPushToken[1]", "ExponentPushToken[2]"}

\* a document whose expoPushToken was never written; removal writes ''
Unset == "unset"
Removed == ""

\* the documents present at the start
InitialCourses == {[id |-> "c1", name |-> "n1"]}
InitialInvitations == {[id |-> 1, course |-> "c1", sender |-> Owner,
                        recipient |-> "t1@x.com", status |-> "pending"]}
InitialCourseTeachers == {[course |-> "c1", teacher |-> Owner, role |-> "owner"]}

InitData ==
    /\ reqs = {}
    /\ started = 0
    /\ courses = InitialCourses
    /\ invitations = InitialInvitations
    /\ courseTeachers = InitialCourseTeachers
    /\ pushTokens = [e \in Emails |-> Unset]

\* the StudentEnrollment rows present at the start
InitialEnrollments == {[id |-> 1, course |-> "c1", startId |-> 1, endId |-> 2],
                       [id |-> 2, course |-> "c1", startId |-> 4, endId |-> 4]}

InitCore ==
    /\ queue = <<>>
    /\ active = NoJob
    /\ finished = NoFinish
    /\ resp = NoResp
    /\ pc = "idle"
    /\ mode = "none"
    /\ arg = "none"
    /\ snapshot = NoSnapshot
    /\ items = <<>>
    /\ chunkSize = 0
    /\ chunks = <<>>
    /\ ci = 0
    /\ slots = <<>>
    /\ allResults = <<>>
    /\ delays = 0
    /\ ret = NoRet
    /\ emailUp = TRUE
    /\ enrollments = InitialEnrollments
    /\ students = {[studentId |-> 1, email |-> "a@x.com"],
                   [studentId |-> 3, email |-> "b@x.com"]}

Init ==
    /\ InitCore
    /\ roleCall = NoRoleCall
    /\ InitData

\* --------------------------------------------------------------- producers
Reset ==
    /\ pc' = "idle"
    /\ mode' = "none"
    /\ arg' = "none"
    /\ snapshot' = NoSnapshot
    /\ items' = <<>>
    /\ chunkSize' = 0
    /\ chunks' = <<>>
    /\ ci' = 0
    /\ slots' = <<>>
    /\ allResults' = <<>>
    /\ delays' = 0
    /\ ret' = NoRet

Response(status, message) == [status |-> status, message |-> message]

\* (variant: the response does not wait for the add)
Enqueue_FireAndForget(name, data, req, message) ==
    \/ /\ Len(queue) < MaxQueue
       /\ queue' = Append(queue, [name |-> name, data |-> data, req |-> req])
       /\ resp' = Response(200, message)
    \/ /\ queue' = queue
       /\ resp' = Response(200, message)

\* await notificationQueue.add(name, data) followed by res.json(...); an add
\* that throws (Redis unreachable) is answered 500 by the handler's catch.
\* req is the body the handler received, kept with the job for the
\* round-trip property.
Enqueue(name, data, req, message) ==
    \/ /\ Len(queue) < MaxQueue
       /\ queue' = Append(queue, [name |-> name, data |-> data, req |-> req])
       /\ resp' = Response(200, message)
    \/ /\ queue' = queue
       /\ resp' = Response(500, "error")

BadRequest ==
    /\ queue' = queue
    /\ resp' = Response(400, "missing")

Missing(field) == field = Undefined

\* a request field that should hold an array: absent, a string, or an array
Absent == [t |-> "undefined", v |-> <<>>]
NotArray == [t |-> "string", v |-> <<>>]
Array(v) == [t |-> "array", v |-> v]
IsArray(field) == field.t = "array"

\* POST handler sendToUser
sendToUser ==
    /\ \E email \in Emails \cup {Undefined}, title \in Titles \cup {Undefined},
          body \in Bodies \cup {Undefined} :
         IF Missing(email) \/ Missing(title) \/ Missing(body)
         THEN BadRequest
         ELSE Enqueue(QUEUE_EVENTS.SEND_USER,
                      [email |-> email, title |-> title, body |-> body],
                      [email |-> email, title |-> title, body |-> body],
                      "queued")
    /\ finished' = NoFinish
    /\ UNCHANGED <<active, callVars, envVars>>

\* POST handler sendToUsers; emails must be an array
sendToUsers ==
    /\ \E emails \in {Array(v) : v \in ReqEmailLists} \cup {Absent, NotArray},
          title \in Titles \cup {Undefined}, body \in Bodies \cup {Undefined} :
         IF emails = Absent \/ ~IsArray(emails) \/ Missing(title) \/ Missing(body)
         THEN BadRequest
         ELSE Enqueue(QUEUE_EVENTS.SEND_USERS,
                      [emails |-> emails.v, title |-> title, body |-> body],
                      [emails |-> emails.v, title |-> title, body |-> body],
                      "queued")
    /\ finished' = NoFinish
    /\ UNCHANGED <<active, callVars, envVars>>

\* POST handler sendToCourse
sendToCourse ==
    /\ \E courseId \in CourseIds \cup {Undefined}, title \in Titles \cup {Undefined},
          body \in Bodies \cup {Undefined} :
         IF Missing(courseId) \/ Missing(title) \/ Missing(body)
         THEN BadRequest
         ELSE Enqueue(QUEUE_EVENTS.SEND_COURSE,
                      [courseId |-> courseId, title |-> title, body |-> body],
                      [courseId |-> courseId, title |-> title, body |-> body],
                      "queued")
    /\ finished' = NoFinish
    /\ UNCHANGED <<active, callVars, envVars>>

\* POST handler sendToRole; role must be 'student' or 'teacher'
sendToRole ==
    /\ \E role \in Roles \cup {"admin", Undefined}, title \in Titles \cup {Undefined},
          body \in Bodies \cup {Undefined} :
         IF Missing(role) \/ Missing(title) \/ Missing(body)
         THEN BadRequest
         ELSE IF role # "student" /\ role # "teacher"
         THEN BadRequest
         ELSE Enqueue(QUEUE_EVENTS.SEND_ROLE,
                      [role |-> role, title |-> title, body |-> body],
                      [role |-> role, title |-> title, body |-> body],
                      "queued")
    /\ finished' = NoFinish
    /\ UNCHANGED <<active, callVars, envVars>>

\* POST handler sendBatch; only the array itself is validated
sendBatch ==
    /\ \E notifications \in {Array(v) : v \in ReqNotifLists}
                                \cup {Absent, NotArray} :
         IF notifications = Absent \/ ~IsArray(notifications)
         THEN BadRequest
         ELSE Enqueue(QUEUE_EVENTS.SEND_BATCH,
                      [notifications |-> notifications.v],
                      [notifications |-> notifications.v],
                      "queued")
    /\ finished' = NoFinish
    /\ UNCHANGED <<active, callVars, envVars>>

\* ------------------------------------------------------------------ worker
\* (variant: the worker takes a job while one is running)
WorkerFree_Always == TRUE

\* new Worker(name, processor, { connection }): no concurrency option, so the
\* worker fetches the next job only when its processor is not running
WorkerFree == active = NoJob /\ pc = "idle"

\* (variant: an unknown job name is skipped and the handler returns)
UnknownJobName_Ignored ==
    /\ pc' = "returned"
    /\ ret' = [kind |-> "none"]
    /\ UNCHANGED <<mode, arg, snapshot, items, chunkSize, chunks, ci,
                   slots, allResults, delays>>

\* default: throw new Error(`Unknown job name: ${job.name}`)
UnknownJobName ==
    /\ pc' = "threw"
    /\ ret' = [kind |-> "exception"]
    /\ UNCHANGED <<mode, arg, snapshot, items, chunkSize, chunks, ci,
                   slots, allResults, delays>>

\* (variant: every job is acknowledged)
JobOutcome_AlwaysCompleted(p) == "completed"

\* a processor that returns completes the job, one that throws fails it
JobOutcome(p) == IF p = "returned" THEN "completed" ELSE "failed"

\* (variant: the switch has no case for send-role)
Dequeue_NoRole ==
    /\ WorkerFree
    /\ queue # <<>>
    /\ LET job == Head(queue) IN
       /\ active' = job
       /\ queue' = Tail(queue)
       /\ CASE job.name = QUEUE_EVENTS.SEND_USER ->
                 sendNotificationToUser(job.data.email, job.data.title, job.data.body)
            [] job.name = QUEUE_EVENTS.SEND_USERS ->
                 sendNotificationToUsers(job.data.emails, job.data.title, job.data.body)
            [] job.name = QUEUE_EVENTS.SEND_COURSE ->
                 sendNotificationToCourseStudents(job.data.courseId, job.data.title,
                                                  job.data.body)
            [] job.name = QUEUE_EVENTS.SEND_BATCH ->
                 sendBatchNotifications(job.data.notifications, DefaultChunkSize)
            [] OTHER -> UnknownJobName
    /\ resp' = NoResp
    /\ finished' = NoFinish
    /\ UNCHANGED envVars

\* The Worker (default concurrency 1) takes the oldest waiting job and runs
\* the handler: the switch on job.name.
Dequeue ==
    /\ WorkerFree
    /\ queue # <<>>
    /\ LET job == Head(queue) IN
       /\ active' = job
       /\ queue' = Tail(queue)
       /\ CASE job.name = QUEUE_EVENTS.SEND_USER ->
                 sendNotificationToUser(job.data.email, job.data.title, job.data.body)
            [] job.name = QUEUE_EVENTS.SEND_USERS ->
                 sendNotificationToUsers(job.data.emails, job.data.title, job.data.body)
            [] job.name = QUEUE_EVENTS.SEND_COURSE ->
                 sendNotificationToCourseStudents(job.data.courseId, job.data.title,
                                                  job.data.body)
            [] job.name = QUEUE_EVENTS.SEND_ROLE ->
                 sendNotificationToUsersByRole(job.data.role, job.data.title, job.data.body)
            [] job.name = QUEUE_EVENTS.SEND_BATCH ->
                 sendBatchNotifications(job.data.notifications, DefaultChunkSize)
            [] OTHER -> UnknownJobName
    /\ resp' = NoResp
    /\ finished' = NoFinish
    /\ UNCHANGED envVars

\* The handler returns (job completed) or rethrows (job failed).
Complete ==
    /\ active # NoJob
    /\ pc \in {"returned", "threw"}
    /\ finished' = [state |-> JobOutcome(pc), name |-> active.name,
                     returnvalue |-> IF pc = "returned" THEN ret ELSE NoRet]
    /\ active' = NoJob
    /\ Reset
    /\ resp' = NoResp
    /\ UNCHANGED <<queue, envVars>>

\* ------------------------------------------- course and class-test handlers
\* Student.find({studentId: {$gte: startId, $lte: endId}})
getStudentsInRange(startId, endId) ==
    {st \in students : st.studentId >= startId /\ st.studentId <= endId}

\* ClassTestController.getEnrolledStudentEmails: the e-mails of the students
\* in the ranges of the course's enrollment rows
getEnrolledStudentEmails(courseId) ==
    {st.email : st \in UNION {getStudentsInRange(e.startId, e.endId) :
                                 e \in {r \in enrollments : r.course = courseId}}}

\* the arrays a find() may return for a set of documents
Orderings(S) ==
    {q \in SeqsUpTo(S, Cardinality(S)) :
        Len(q) = Cardinality(S) /\ {q[i] : i \in 1..Len(q)} = S}

\* (variant: an error of notificationQueue.add reaches the outer catch)
NotifError_Rethrown(threw, success) ==
    IF threw THEN Response(500, "error") ELSE success

\* try { await notificationQueue.add(...) } catch (notifError) { console.error }:
\* the handler goes on to its answer
NotifError(threw, success) == success

CourseExists(courseId) == \E c \in courses : c.id = courseId

\* try { await notificationQueue.add(name, data) } catch { console.error }:
\* the handler goes on whether or not the job was added
TryAdd(name, data) ==
    \/ /\ Len(queue) < MaxQueue
       /\ queue' = Append(queue, [name |-> name, data |-> data, req |-> data])
    \/ queue' = queue

\* POST createClassTest: the class test is stored, the enrolled students are
\* resolved and a send-users job for them is added, then 201 is answered
createClassTest ==
    /\ \E courseId \in CourseIds :
         \E studentEmails \in Orderings(getEnrolledStudentEmails(courseId)) :
            /\ IF CourseExists(courseId) /\ Len(studentEmails) > 0
               THEN TryAdd(QUEUE_EVENTS.SEND_USERS,
                           [emails |-> studentEmails, title |-> "New Class Test",
                            body |-> "B",
                            data |-> [courseId |-> courseId, type |-> "ct_created"]])
               ELSE queue' = queue
            /\ resp' = NotifError(CourseExists(courseId) /\ Len(studentEmails) > 0
                                     /\ queue' = queue,
                                  Response(201, "created"))
    /\ finished' = NoFinish
    /\ UNCHANGED <<active, callVars, envVars>>

\* DELETE deleteEnrollment: the students of the row's range are told, then the
\* row is deleted
deleteEnrollment ==
    /\ \E enrollment \in enrollments :
         /\ \E removedEmails \in Orderings({st.email :
                     st \in getStudentsInRange(enrollment.startId, enrollment.endId)}) :
              /\ IF Len(removedEmails) > 0
                 THEN TryAdd(QUEUE_EVENTS.SEND_USERS,
                             [emails |-> removedEmails, title |-> "Removed",
                              body |-> "B",
                              data |-> [courseId |-> enrollment.course,
                                        type |-> "enrollment_removed"]])
                 ELSE queue' = queue
              /\ resp' = NotifError(Len(removedEmails) > 0 /\ queue' = queue,
                                    Response(200, "deleted"))
         /\ enrollments' = enrollments \ {enrollment}
    /\ finished' = NoFinish
    /\ UNCHANGED <<active, callVars, emailUp, students, auxVars>>

\* ------------------------------------------------------ enrollment handlers
\* the ranges the add and update requests carry
AddRanges == {[startId |-> 3, endId |-> 3], [startId |-> 1, endId |-> 1],
              [startId |-> 3, endId |-> 2]}
UpdateRanges == {[startId |-> 1, endId |-> 3]}

\* the connections requests arrive on; one connection carries one request at a
\* time, requests of different connections are handled concurrently
Sessions == {1, 2}

Answered == {"done", "failed", "rejected"}

\* a connection whose previous request was answered; its record is let go
Idle(s) == \A q \in reqs : q.session = s => q.pc \in Answered

\* a request arrives on the first free connection
Accepts(s) == Idle(s) /\ \A t \in Sessions : Idle(t) => s <= t

Others(s) == {q \in reqs : q.session # s}

\* notificationQueue.add of a handler; req identifies the request
TryAddReq(name, data, req) ==
    \/ /\ Len(queue) < MaxQueue
       /\ queue' = Append(queue, [name |-> name, data |-> data, req |-> req])
    \/ queue' = queue

\* pre('save'): findOne of a row of the course, other than the document,
\* whose range meets the document's
Overlaps(doc) ==
    \E e \in enrollments :
       /\ e.course = doc.course
       /\ e.id # doc.id
       /\ e.startId <= doc.endId
       /\ e.endId >= doc.startId

\* (variant: every student of the new range is told)
newlyEnrolledStudents_All(courseId, startId, endId) ==
    getStudentsInRange(startId, endId)

\* addEnrollment: the students of the new range that are not enrolled yet
newlyEnrolledStudents(courseId, startId, endId) ==
    LET alreadyEnrolledIds == {st.studentId : st \in getAlreadyEnrolledStudents(courseId)}
    IN  {st \in getStudentsInRange(startId, endId) : st.studentId \notin alreadyEnrolledIds}

\* updateEnrollment: the students of the new range outside the row's old range
newlyAddedStudents(old, newStartId, newEndId) ==
    {st \in getStudentsInRange(newStartId, newEndId) :
        st.studentId \notin old.startId..old.endId}

NoRange == [startId |-> 0, endId |-> 0]
NoDoc == [id |-> 0, course |-> "none", startId |-> 0, endId |-> 0]

\* what a job remembers of the request that added it
Origin(r) == [rid |-> r.rid, op |-> r.op, doc |-> r.doc, before |-> r.before]

\* the handler moves on; once it has answered, its locals are gone
Finish(r, state) ==
    reqs' = (reqs \ {r}) \cup
        {IF state \in Answered
         THEN [r EXCEPT !.pc = state, !.doc = NoDoc, !.old = NoRange, !.before = {},
                        !.newly = {}]
         ELSE [r EXCEPT !.pc = state]}

\* POST addEnrollment is received; a range with startId > endId is answered 400
addEnrollment ==
    /\ started < MaxReqs
    /\ \E s \in Sessions, courseId \in CourseIds, range \in AddRanges :
         LET r == [rid |-> started + 1, session |-> s, op |-> "addEnrollment",
                   pc |-> "read",
                   doc |-> [id |-> Cardinality(InitialEnrollments) + started + 1, course |-> courseId,
                            startId |-> range.startId, endId |-> range.endId],
                   old |-> NoRange,
                   before |-> {}, newly |-> {}]
         IN  /\ Accepts(s)
             /\ IF range.startId > range.endId
                THEN /\ reqs' = Others(s) \cup {[r EXCEPT !.pc = "rejected"]}
                     /\ resp' = Response(400, "invalid")
                ELSE /\ reqs' = Others(s) \cup {r}
                     /\ resp' = NoResp
    /\ started' = started + 1
    /\ finished' = NoFinish
    /\ UNCHANGED <<queue, active, callVars, emailUp, enrollments, students, roleCall, dataVars>>

\* getStudentsInRange and getAlreadyEnrolledStudents of addEnrollment
AddRead ==
    /\ \E r \in reqs :
         /\ r.op = "addEnrollment" /\ r.pc = "read"
         /\ reqs' = (reqs \ {r}) \cup
               {[r EXCEPT !.pc = "hook",
                          !.before = {e \in enrollments : e.course = r.doc.course},
                          !.newly = newlyEnrolledStudents(r.doc.course, r.doc.startId,
                                                          r.doc.endId)]}
    /\ resp' = NoResp
    /\ finished' = NoFinish
    /\ UNCHANGED <<queue, active, callVars, emailUp, enrollments, students, roleCall,
                   started, dataVars>>

\* the pre('save') hook of StudentEnrollment.create / enrollment.save(): an
\* overlap throws and the handler answers 500
SaveHook ==
    /\ \E r \in reqs :
         /\ r.pc = "hook"
         /\ IF Overlaps(r.doc)
            THEN /\ Finish(r, "failed")
                 /\ resp' = Response(500, "error")
            ELSE /\ Finish(r, "write")
                 /\ resp' = NoResp
    /\ finished' = NoFinish
    /\ UNCHANGED <<queue, active, callVars, emailUp, enrollments, students, roleCall,
                   started, dataVars>>

\* the document is written: inserted by create, replaced by save
SaveWrite ==
    /\ \E r \in reqs :
         /\ r.pc = "write"
         /\ IF r.op = "addEnrollment"
            THEN /\ enrollments' = enrollments \cup {r.doc}
                 /\ Finish(r, "notify")
                 /\ resp' = NoResp
            ELSE /\ enrollments' = {IF e.id = r.doc.id THEN r.doc ELSE e : e \in enrollments}
                 /\ IF \E e \in enrollments : e.id = r.doc.id
                    THEN /\ Finish(r, "done")
                         /\ resp' = Response(200, "updated")
                    ELSE \* the row was deleted meanwhile: nothing is written
                         \/ /\ Finish(r, "done")
                            /\ resp' = Response(200, "updated")
                         \/ /\ Finish(r, "failed")
                            /\ resp' = Response(500, "error")
    /\ finished' = NoFinish
    /\ UNCHANGED <<queue, active, callVars, emailUp, students, roleCall, started,
                   dataVars>>

\* addEnrollment after create: the enrollment notice is added and 201 answered
AddNotify ==
    /\ \E r \in reqs :
         /\ r.op = "addEnrollment" /\ r.pc = "notify"
         /\ \E newStudentEmails \in Orderings({st.email : st \in r.newly}) :
              /\ IF Len(newStudentEmails) > 0
                 THEN TryAddReq(QUEUE_EVENTS.SEND_USERS,
                                [emails |-> newStudentEmails, title |-> "Enrolled",
                                 body |-> "B",
                                 data |-> [courseId |-> r.doc.course,
                                           type |-> "enrollment"]],
                                Origin(r))
                 ELSE queue' = queue
              /\ resp' = NotifError(Len(newStudentEmails) > 0 /\ queue' = queue,
                                    Response(201, "created"))
         /\ Finish(r, "done")
    /\ finished' = NoFinish
    /\ UNCHANGED <<active, callVars, emailUp, enrollments, students, roleCall, started,
                   dataVars>>

\* PUT updateEnrollment is received: findById
updateEnrollment ==
    /\ started < MaxReqs
    /\ \E s \in Sessions, enrollment \in enrollments, updates \in UpdateRanges :
         /\ Accepts(s)
         /\ reqs' = Others(s) \cup
            {[rid |-> started + 1, session |-> s, op |-> "updateEnrollment",
              pc |-> "notify",
              doc |-> [enrollment EXCEPT !.startId = updates.startId,
                                         !.endId = updates.endId],
              old |-> [startId |-> enrollment.startId, endId |-> enrollment.endId],
              before |-> {}, newly |-> {}]}
    /\ started' = started + 1
    /\ resp' = NoResp
    /\ finished' = NoFinish
    /\ UNCHANGED <<queue, active, callVars, emailUp, enrollments, students, roleCall, dataVars>>

\* updateEnrollment before save: the students the new range adds are told
UpdateNotify ==
    /\ \E r \in reqs :
         /\ r.op = "updateEnrollment" /\ r.pc = "notify"
         /\ LET added == newlyAddedStudents(r.old, r.doc.startId, r.doc.endId) IN
            /\ \E newStudentEmails \in Orderings({st.email : st \in added}) :
                 IF Len(newStudentEmails) > 0
                 THEN TryAddReq(QUEUE_EVENTS.SEND_USERS,
                                [emails |-> newStudentEmails, title |-> "Enrolled",
                                 body |-> "B",
                                 data |-> [courseId |-> r.doc.course,
                                           type |-> "enrollment_updated"]],
                                Origin(r))
                 ELSE queue' = queue
            /\ reqs' = (reqs \ {r}) \cup {[r EXCEPT !.pc = "hook", !.newly = added]}
    /\ resp' = NoResp
    /\ finished' = NoFinish
    /\ UNCHANGED <<active, callVars, emailUp, enrollments, students, roleCall, started,
                   dataVars>>

\* ------------------------------------------- course and invitation handlers
IsMember(courseId, teacher) ==
    \E m \in courseTeachers : m.course = courseId /\ m.teacher = teacher

\* the addresses of the students of the course's rows, then of its teachers
CourseMemberEmails(courseId) ==
    LET studentEmails == {st.email : st \in {x \in students :
                             \E e \in enrollments :
                                /\ e.course = courseId
                                /\ x.studentId \in e.startId..e.endId}}
        teacherEmails == {m.teacher : m \in {x \in courseTeachers : x.course = courseId}}
    IN  {se \o te : se \in Orderings(studentEmails), te \in Orderings(teacherEmails)}

UserJob(email, courseId, type) ==
    [email |-> email, title |-> "T", body |-> "B",
     data |-> [courseId |-> courseId, type |-> type]]

\* PUT updateCourse: a changed name is saved and the members are told
updateCourse ==
    /\ \E courseId \in CourseIds, name \in CourseNames :
         IF ~CourseExists(courseId)
         THEN /\ resp' = Response(404, "course")
              /\ UNCHANGED <<queue, courses>>
         ELSE LET course == CHOOSE c \in courses : c.id = courseId
                  changed == course.name # name
              IN  /\ courses' = (courses \ {course}) \cup {[course EXCEPT !.name = name]}
                  /\ \E allEmails \in CourseMemberEmails(courseId) :
                       /\ IF changed /\ Len(allEmails) > 0
                          THEN TryAdd(QUEUE_EVENTS.SEND_USERS,
                                      [emails |-> allEmails, title |-> "Course Updated",
                                       body |-> "B",
                                       data |-> [courseId |-> courseId,
                                                 type |-> "course_updated"]])
                          ELSE queue' = queue
                       /\ resp' = NotifError(changed /\ Len(allEmails) > 0
                                                /\ queue' = queue,
                                             Response(200, "updated"))
    /\ finished' = NoFinish
    /\ UNCHANGED <<active, callVars, emailUp, enrollments, students, roleCall, reqs,
                   started, invitations, courseTeachers, pushTokens>>

\* DELETE deleteCourse: a co-teacher leaves the course, the owner deletes it
\* with its memberships and enrollment rows and the members are told
deleteCourse ==
    /\ \E courseId \in CourseIds, userId \in Teachers \cup {Owner} :
         IF ~CourseExists(courseId)
         THEN /\ resp' = Response(404, "course")
              /\ UNCHANGED <<queue, courses, courseTeachers, enrollments>>
         ELSE IF ~IsMember(courseId, userId)
         THEN /\ resp' = Response(403, "member")
              /\ UNCHANGED <<queue, courses, courseTeachers, enrollments>>
         ELSE IF userId # Owner
         THEN /\ courseTeachers' = {m \in courseTeachers :
                                      ~(m.course = courseId /\ m.teacher = userId)}
              /\ resp' = Response(200, "removed")
              /\ UNCHANGED <<queue, courses, enrollments>>
         ELSE /\ \E allEmails \in CourseMemberEmails(courseId) :
                   /\ IF Len(allEmails) > 0
                      THEN TryAdd(QUEUE_EVENTS.SEND_USERS,
                                  [emails |-> allEmails, title |-> "Course Deleted",
                                   body |-> "B",
                                   data |-> [courseId |-> courseId,
                                             type |-> "course_deleted"]])
                      ELSE queue' = queue
                   /\ resp' = NotifError(Len(allEmails) > 0 /\ queue' = queue,
                                         Response(200, "deleted"))
              /\ courses' = {c \in courses : c.id # courseId}
              /\ courseTeachers' = {m \in courseTeachers : m.course # courseId}
              /\ enrollments' = {e \in enrollments : e.course # courseId}
    /\ finished' = NoFinish
    /\ UNCHANGED <<active, callVars, emailUp, students, roleCall, reqs, started,
                   invitations, pushTokens>>

\* POST addTeacherToCourse by the owner
addTeacherToCourse ==
    /\ \E courseId \in CourseIds, teacherEmail \in Teachers :
         IF ~CourseExists(courseId)
         THEN /\ resp' = Response(404, "course")
              /\ UNCHANGED <<queue, courseTeachers>>
         ELSE IF IsMember(courseId, teacherEmail)
         THEN /\ resp' = Response(400, "member")
              /\ UNCHANGED <<queue, courseTeachers>>
         ELSE /\ courseTeachers' = courseTeachers \cup
                    {[course |-> courseId, teacher |-> teacherEmail, role |-> "teacher"]}
              /\ TryAdd(QUEUE_EVENTS.SEND_USER,
                        UserJob(teacherEmail, courseId, "teacher_added"))
              /\ resp' = NotifError(queue' = queue, Response(201, "added"))
    /\ finished' = NoFinish
    /\ UNCHANGED <<active, callVars, emailUp, enrollments, students, roleCall, reqs,
                   started, courses, invitations, pushTokens>>

\* POST sendInvitation by the owner
sendInvitation ==
    /\ \E courseId \in CourseIds, recipientEmail \in Teachers :
         IF ~CourseExists(courseId)
         THEN /\ resp' = Response(404, "course")
              /\ UNCHANGED <<queue, invitations, started>>
         ELSE IF IsMember(courseId, recipientEmail)
         THEN /\ resp' = Response(400, "member")
              /\ UNCHANGED <<queue, invitations, started>>
         ELSE IF \E i \in invitations : /\ i.course = courseId
                                        /\ i.recipient = recipientEmail
                                        /\ i.status = "pending"
         THEN /\ resp' = Response(400, "sent")
              /\ UNCHANGED <<queue, invitations, started>>
         ELSE /\ started < MaxReqs
              /\ started' = started + 1
              /\ invitations' = invitations \cup
                    {[id |-> Cardinality(InitialInvitations) + started + 1,
                      course |-> courseId, sender |-> Owner,
                      recipient |-> recipientEmail, status |-> "pending"]}
              /\ TryAdd(QUEUE_EVENTS.SEND_USER,
                        UserJob(recipientEmail, courseId, "course_invitation"))
              /\ resp' = NotifError(queue' = queue, Response(201, "sent"))
    /\ finished' = NoFinish
    /\ UNCHANGED <<active, callVars, emailUp, enrollments, students, roleCall, reqs,
                   courses, courseTeachers, pushTokens>>

\* what the invitation handlers keep of the request
InvitationRequest(s, op, invitation) ==
    [rid |-> started + 1, session |-> s, op |-> op, pc |-> "save",
     inv |-> invitation.id, course |-> invitation.course,
     populated |-> CourseExists(invitation.course),
     sender |-> invitation.sender, teacher |-> invitation.recipient]

\* findById and the checks of acceptInvitation / rejectInvitation
RespondToInvitation(op, s, invitation, teacherId) ==
    /\ Accepts(s)
    /\ IF invitation.recipient # teacherId
       THEN /\ resp' = Response(403, "recipient")
            /\ UNCHANGED <<reqs, started>>
       ELSE IF invitation.status # "pending"
       THEN /\ resp' = Response(400, "responded")
            /\ UNCHANGED <<reqs, started>>
       ELSE /\ started < MaxReqs
            /\ started' = started + 1
            /\ reqs' = Others(s) \cup {InvitationRequest(s, op, invitation)}
            /\ resp' = NoResp

\* POST acceptInvitation is received
acceptInvitation ==
    /\ \E s \in Sessions, invitation \in invitations, teacherId \in Teachers :
         RespondToInvitation("acceptInvitation", s, invitation, teacherId)
    /\ finished' = NoFinish
    /\ UNCHANGED <<queue, active, callVars, emailUp, enrollments, students, roleCall,
                   dataVars>>

\* POST rejectInvitation is received
rejectInvitation ==
    /\ \E s \in Sessions, invitation \in invitations, teacherId \in Teachers :
         RespondToInvitation("rejectInvitation", s, invitation, teacherId)
    /\ finished' = NoFinish
    /\ UNCHANGED <<queue, active, callVars, emailUp, enrollments, students, roleCall,
                   dataVars>>

Advance(r, state) == reqs' = (reqs \ {r}) \cup {[r EXCEPT !.pc = state]}

\* invitation.save() of both handlers: the status is written by _id
InvitationSave ==
    /\ \E r \in reqs :
         /\ r.pc = "save"
         /\ invitations' =
               {IF i.id = r.inv
                THEN [i EXCEPT !.status = IF r.op = "acceptInvitation"
                                          THEN "accepted" ELSE "rejected"]
                ELSE i : i \in invitations}
         /\ Advance(r, IF r.op = "acceptInvitation" THEN "member" ELSE "notify")
    /\ resp' = NoResp
    /\ finished' = NoFinish
    /\ UNCHANGED <<queue, active, callVars, emailUp, enrollments, students, roleCall,
                   started, courses, courseTeachers, pushTokens>>

\* CourseTeacher.create of acceptInvitation: a course that populate() did not
\* find leaves the required path course empty, a second membership breaks the
\* unique index; both throw and the handler answers 500
AcceptMember ==
    /\ \E r \in reqs :
         /\ r.pc = "member"
         /\ IF ~r.populated \/ IsMember(r.course, r.teacher)
            THEN /\ Advance(r, "failed")
                 /\ resp' = Response(500, "error")
                 /\ UNCHANGED courseTeachers
            ELSE /\ courseTeachers' = courseTeachers \cup
                       {[course |-> r.course, teacher |-> r.teacher, role |-> "teacher"]}
                 /\ Advance(r, "notify")
                 /\ resp' = NoResp
    /\ finished' = NoFinish
    /\ UNCHANGED <<queue, active, callVars, emailUp, enrollments, students, roleCall,
                   started, courses, invitations, pushTokens>>

\* the notice to the sender, of both handlers; without the populated course
\* building the job throws and nothing is added
NotifySender ==
    /\ \E r \in reqs :
         /\ r.pc = "notify"
         /\ IF r.populated
            THEN TryAddReq(QUEUE_EVENTS.SEND_USER,
                           UserJob(r.sender, r.course,
                                   IF r.op = "acceptInvitation"
                                   THEN "invitation_accepted"
                                   ELSE "invitation_rejected"),
                           [rid |-> r.rid, op |-> r.op])
            ELSE queue' = queue
         /\ IF r.op = "acceptInvitation"
            THEN /\ Advance(r, "confirm")
                 /\ resp' = NoResp
            ELSE /\ Advance(r, "done")
                 /\ resp' = NotifError(queue' = queue, Response(200, "rejected"))
    /\ finished' = NoFinish
    /\ UNCHANGED <<active, callVars, emailUp, enrollments, students, roleCall, started,
                   dataVars>>

\* the confirmation to the recipient and the answer of acceptInvitation
AcceptConfirm ==
    /\ \E r \in reqs :
         /\ r.pc = "confirm"
         /\ TryAddReq(QUEUE_EVENTS.SEND_USER,
                      UserJob(r.teacher, r.course, "invitation_accepted_confirmation"),
                      [rid |-> r.rid, op |-> r.op])
         /\ Advance(r, "done")
         /\ resp' = NotifError(queue' = queue, Response(200, "accepted"))
    /\ finished' = NoFinish
    /\ UNCHANGED <<active, callVars, emailUp, enrollments, students, roleCall, started,
                   dataVars>>

\* --------------------------------------------------------------- push tokens
\* savePushToken(email, pushToken) behind POST /users/me/push-token: the token
\* is written to the Student or Teacher document of the address; an address
\* of neither role is answered 400
savePushToken ==
    /\ \E email \in Emails, pushToken \in PushTokens, role \in Roles \cup {Null} :
         IF role = Null
         THEN /\ resp' = Response(400, "failed")
              /\ UNCHANGED pushTokens
         ELSE /\ pushTokens' = [pushTokens EXCEPT ![email] = pushToken]
              /\ resp' = Response(200, "saved")
    /\ finished' = NoFinish
    /\ UNCHANGED <<queue, active, callVars, emailUp, enrollments, students, roleCall,
                   reqs, started, courses, invitations, courseTeachers>>

\* removePushToken(email) behind DELETE /users/me/push-token
removePushToken ==
    /\ \E email \in Emails, role \in Roles \cup {Null} :
         IF role = Null
         THEN /\ resp' = Response(400, "failed")
              /\ UNCHANGED pushTokens
         ELSE /\ pushTokens' = [pushTokens EXCEPT ![email] = Removed]
              /\ resp' = Response(200, "removed")
    /\ finished' = NoFinish
    /\ UNCHANGED <<queue, active, callVars, emailUp, enrollments, students, roleCall,
                   reqs, started, courses, invitations, courseTeachers>>

\* The queue lives in the Redis instance of REDIS_HOST under the name
\* 'notification-queue': a client other than this program's producers adds a
\* job whose name is none of QUEUE_EVENTS.
ForeignAdd ==
    /\ Len(queue) < MaxQueue
    /\ queue' = Append(queue, [name |-> "foreign", data |-> [payload |-> "none"],
                               req |-> [payload |-> "none"]])
    /\ resp' = NoResp
    /\ finished' = NoFinish
    /\ UNCHANGED <<active, callVars, envVars>>

\* ---------------------------------------------- the dispatch service's API
CallUser ==
    /\ active = NoJob /\ pc = "idle"
    /\ \E email \in Emails : sendNotificationToUser(email, "T", "B")
    /\ resp' = NoResp
    /\ finished' = NoFinish
    /\ UNCHANGED <<queue, active, envVars>>

CallUsers ==
    /\ active = NoJob /\ pc = "idle"
    /\ \E emailList \in SeqsUpTo(Emails, MaxLen) :
         sendNotificationToUsers(emailList, "T", "B")
    /\ resp' = NoResp
    /\ finished' = NoFinish
    /\ UNCHANGED <<queue, active, envVars>>

CallCourse ==
    /\ active = NoJob /\ pc = "idle"
    /\ \E courseId \in CourseIds : sendNotificationToCourseStudents(courseId, "T", "B")
    /\ resp' = NoResp
    /\ finished' = NoFinish
    /\ UNCHANGED <<queue, active, envVars>>

CallRole ==
    /\ active = NoJob /\ pc = "idle"
    /\ \E role \in Roles : sendNotificationToUsersByRole(role, "T", "B")
    /\ resp' = NoResp
    /\ finished' = NoFinish
    /\ UNCHANGED <<queue, active, envVars>>

CallBatch ==
    /\ active = NoJob /\ pc = "idle"
    /\ \E notifications \in SeqsUpTo(Notifs, MaxBatch),
          size \in (1..MaxChunk) \cup {DefaultChunkSize} :
         sendBatchNotifications(notifications, size)
    /\ resp' = NoResp
    /\ finished' = NoFinish
    /\ UNCHANGED <<queue, active, envVars>>

\* the e-mail webhook of the deployment goes down or comes back
EmailWebhook ==
    /\ emailUp' = ~emailUp
    /\ resp' = NoResp
    /\ finished' = NoFinish
    /\ UNCHANGED <<queue, active, callVars, enrollments, students, auxVars>>

\* the caller takes the returned value (or the exception)
Return ==
    /\ active = NoJob
    /\ pc \in {"returned", "threw"}
    /\ Reset
    /\ resp' = NoResp
    /\ finished' = NoFinish
    /\ UNCHANGED <<queue, active, envVars>>

\* ------------------------------------------------------ role classification
\* Strings are sequences of one-character strings.
UpperChars == <<"A", "B", "C", "D", "E", "F", "G", "H", "I", "J", "K", "L", "M", "N", "O", "P", "Q", "R", "S", "T", "U", "V", "W", "X", "Y", "Z">>
LowerChars == <<"a", "b", "c", "d", "e", "f", "g", "h", "i", "j", "k", "l", "m", "n", "o", "p", "q", "r", "s", "t", "u", "v", "w", "x", "y", "z">>
DigitChars == <<"0", "1", "2", "3", "4", "5", "6", "7", "8", "9">>
Whitespace == {" ", "\t", "\n"}

\* String.prototype.toLowerCase
toLowerCase(str) ==
    [i \in 1..Len(str) |->
        IF \E k \in 1..Len(UpperChars) : UpperChars[k] = str[i]
        THEN LowerChars[CHOOSE k \in 1..Len(UpperChars) : UpperChars[k] = str[i]]
        ELSE str[i]]

RECURSIVE trimStart(_)
trimStart(str) ==
    IF str # <<>> /\ Head(str) \in Whitespace THEN trimStart(Tail(str)) ELSE str

RECURSIVE trimEnd(_)
trimEnd(str) ==
    IF str # <<>> /\ str[Len(str)] \in Whitespace
    THEN trimEnd(SubSeq(str, 1, Len(str) - 1)) ELSE str

\* (variant: the address is not trimmed)
trim_None(str) == str

\* String.prototype.trim
trim(str) == trimEnd(trimStart(str))

\* String.prototype.endsWith
endsWith(str, suffix) ==
    /\ Len(str) >= Len(suffix)
    /\ SubSeq(str, Len(str) - Len(suffix) + 1, Len(str)) = suffix

IsDigit(c) == \E k \in 1..Len(DigitChars) : DigitChars[k] = c

\* parseInt(digits, 10) of a string of decimal digits
RECURSIVE parseInt(_)
parseInt(digits) ==
    IF digits = <<>> THEN 0
    ELSE 10 * parseInt(SubSeq(digits, 1, Len(digits) - 1))
         + (CHOOSE k \in 1..Len(DigitChars) : DigitChars[k] = digits[Len(digits)]) - 1

StudentDomain == <<"@", "s", "t", "u", "d", "e", "n", "t", ".", "c", "u", "e", "t", ".", "a", "c", ".", "b", "d">>
TeacherDomain == <<"@", "c", "u", "e", "t", ".", "a", "c", ".", "b", "d">>
StudentIdDigits == 7

\* the addresses getRole compares the address with
TeacherAllowList ==
    {<<"s", "a", "j", "i", "d", "i", "s", "l", "a", "m", "7", "2", "9", "@", "g", "m", "a", "i", "l", ".", "c", "o", "m">>,
     <<"m", "a", "h", "i", "r", "s", "a", "l", "a", "h", "i", "n", "0", "1", "@", "g", "m", "a", "i", "l", ".", "c", "o", "m">>,
     <<"s", "h", "a", "j", "i", "d", "i", "s", "l", "a", "m", ".", "c", "t", "g", ".", "b", "d", "@", "g", "m", "a", "i", "l", ".", "c", "o", "m">>,
     <<"s", "1", "1", "0", "9", "6", "8", "7", "5", "@", "g", "m", "a", "i", "l", ".", "c", "o", "m">>,
     <<"s", "h", "a", "m", "s", "n", "i", "l", "o", "y", "7", "5", "@", "g", "m", "a", "i", "l", ".", "c", "o", "m">>}

\* extractStudentIdFromEmail: <<id>> when the lower-cased, trimmed address
\* matches /^u(\d{7})@student\.cuet\.ac\.bd$/, << >> (null) otherwise
extractStudentIdFromEmail(email) ==
    IF email = <<>> THEN <<>>
    ELSE LET lower == trim(toLowerCase(email)) IN
         IF /\ Len(lower) = 1 + StudentIdDigits + Len(StudentDomain)
            /\ lower[1] = "u"
            /\ \A i \in 2..(1 + StudentIdDigits) : IsDigit(lower[i])
            /\ SubSeq(lower, 2 + StudentIdDigits, Len(lower)) = StudentDomain
         THEN <<parseInt(SubSeq(lower, 2, 1 + StudentIdDigits))>>
         ELSE <<>>

\* getRole: 'student', 'teacher' or null
getRole(email) ==
    IF email = <<>> THEN Null
    ELSE LET e == trim(toLowerCase(email)) IN
         IF extractStudentIdFromEmail(e) # <<>> THEN "student"
         ELSE IF e \in TeacherAllowList \/ endsWith(e, TeacherDomain) THEN "teacher"
         ELSE Null

\* the addresses getRole is called with, by their parts
ListedLocals == {"sajidislam729", "mahirsalahin01", "shajidislam.ctg.bd", "s11096875",
                 "shamsniloy75", "Sajidislam729"}
LocalKinds == {"u7", "U7", "u6", "u8", "a7", "u6x", "name", "empty"} \cup ListedLocals
DomainKinds == {"student", "STUDENT", "cuet", "CUET", "gmail", "student-x", "sub-cuet",
                "none"}

LocalChars(k) ==
    CASE k = "u7" -> <<"u", "2", "1", "0", "4", "0", "0", "1">>
      [] k = "U7" -> <<"U", "2", "1", "0", "4", "0", "0", "1">>
      [] k = "u6" -> <<"u", "2", "1", "0", "4", "0", "0">>
      [] k = "u8" -> <<"u", "2", "1", "0", "4", "0", "0", "1", "1">>
      [] k = "a7" -> <<"a", "2", "1", "0", "4", "0", "0", "1">>
      [] k = "u6x" -> <<"u", "2", "1", "0", "4", "0", "0", "x">>
      [] k = "name" -> <<"t", "o", "m">>
      [] k = "empty" -> <<>>
      [] k = "sajidislam729" -> <<"s", "a", "j", "i", "d", "i", "s", "l", "a", "m", "7", "2", "9">>
      [] k = "mahirsalahin01" -> <<"m", "a", "h", "i", "r", "s", "a", "l", "a", "h", "i", "n", "0", "1">>
      [] k = "shajidislam.ctg.bd" -> <<"s", "h", "a", "j", "i", "d", "i", "s", "l", "a", "m", ".", "c", "t", "g", ".", "b", "d">>
      [] k = "s11096875" -> <<"s", "1", "1", "0", "9", "6", "8", "7", "5">>
      [] k = "shamsniloy75" -> <<"s", "h", "a", "m", "s", "n", "i", "l", "o", "y", "7", "5">>
      [] k = "Sajidislam729" -> <<"S", "a", "j", "i", "d", "i", "s", "l", "a", "m", "7", "2", "9">>

DomainChars(k) ==
    CASE k = "student" -> StudentDomain
      [] k = "STUDENT" -> <<"@", "S", "t", "u", "d", "e", "n", "t", ".", "C", "U", "E", "T", ".", "a", "c", ".", "b", "d">>
      [] k = "cuet" -> TeacherDomain
      [] k = "CUET" -> <<"@", "C", "U", "E", "T", ".", "A", "C", ".", "B", "D">>
      [] k = "gmail" -> <<"@", "g", "m", "a", "i", "l", ".", "c", "o", "m">>
      [] k = "student-x" -> <<"@", "s", "t", "u", "d", "e", "n", "t", ".", "c", "u", "e", "t", ".", "a", "c", ".", "b", "d", ".", "x">>
      [] k = "sub-cuet" -> <<"@", "x", ".", "c", "u", "e", "t", ".", "a", "c", ".", "b", "d">>
      [] k = "none" -> <<>>

RoleInputs ==
    [lead : {<<>>, <<" ">>}, local : LocalKinds, domain : DomainKinds,
     trail : {<<>>, <<"\t">>}]

AddressOf(parts) ==
    parts.lead \o LocalChars(parts.local) \o DomainChars(parts.domain) \o parts.trail

\* the caller's getRole(email) returns
CallGetRole ==
    /\ roleCall.role = "pending"
    /\ roleCall' = [roleCall EXCEPT !.role = getRole(roleCall.email)]
    /\ resp' = NoResp
    /\ finished' = NoFinish
    /\ UNCHANGED <<queue, active, callVars, emailUp, enrollments, students, reqs, started,
                   dataVars>>

\* ---------------------------------------------------------- specifications
Steps ==
    \/ ResolveSettle
    \/ \E i \in 1..MaxBatch + 1 : LookupSettle(i)
    \/ \E i \in 1..MaxBatch + 1 : PushSettle(i)
    \/ FanoutDone

\* the deployed pipeline: producers, queue and worker. The worker passes no
\* chunk size, so a queued batch is cut by DefaultChunkSize; the batches of
\* ReqNotifLists are shorter than that, form one chunk at most, and the
\* inter-chunk wait (DelayDone) is never enabled here.
Next ==
    \/ sendToUser
    \/ sendToUsers
    \/ sendToCourse
    \/ sendToRole
    \/ sendBatch
    \/ Dequeue
    \/ Complete
    \/ Steps

Spec == Init /\ [][Next]_vars

\* the dispatch service called directly
NextDispatch ==
    \/ CallUser
    \/ CallUsers
    \/ CallCourse
    \/ CallRole
    \/ CallBatch
    \/ Return
    \/ EmailWebhook
    \/ Steps
    \/ DelayDone

SpecDispatch == Init /\ [][NextDispatch]_vars

\* the worker on a queue that also holds jobs of other clients
NextWorker ==
    \/ sendToUser
    \/ sendToCourse
    \/ sendBatch
    \/ ForeignAdd
    \/ Dequeue
    \/ Complete
    \/ Steps

SpecWorker == Init /\ [][NextWorker]_vars

\* getRole called with one address of RoleInputs
InitRole ==
    /\ InitCore
    /\ \E parts \in RoleInputs :
         roleCall = [parts |-> parts, email |-> AddressOf(parts), role |-> "pending"]
    /\ InitData

NextRole == CallGetRole

SpecRole == InitRole /\ [][NextRole]_vars

\* requests that add and delete enrollment rows of a course, concurrently
NextEnroll ==
    \/ addEnrollment
    \/ AddRead
    \/ SaveHook
    \/ SaveWrite
    \/ AddNotify
    \/ deleteEnrollment

SpecEnroll == Init /\ [][NextEnroll]_vars

\* requests that change and delete enrollment rows of a course, concurrently
NextUpdate ==
    \/ updateEnrollment
    \/ UpdateNotify
    \/ SaveHook
    \/ SaveWrite
    \/ deleteEnrollment

SpecUpdate == Init /\ [][NextUpdate]_vars

\* token writes of the users and notifications to them
NextTokens ==
    \/ savePushToken
    \/ removePushToken
    \/ CallUser
    \/ CallRole
    \/ Steps
    \/ Return

SpecTokens == Init /\ [][NextTokens]_vars

\* the answers to an invitation, concurrently, while the owner adds teachers
\* and members leave or delete the course
NextInvite ==
    \/ acceptInvitation
    \/ rejectInvitation
    \/ InvitationSave
    \/ AcceptMember
    \/ NotifySender
    \/ AcceptConfirm
    \/ addTeacherToCourse
    \/ deleteCourse

SpecInvite == Init /\ [][NextInvite]_vars

\* the course, class-test and invitation requests that answer in one step
NextData ==
    \/ updateCourse
    \/ deleteCourse
    \/ createClassTest
    \/ sendInvitation
    \/ addTeacherToCourse
    \/ deleteEnrollment

SpecData == Init /\ [][NextData]_vars

\* the notifications of a course: the class-test and enrollment handlers,
\* the send-course producer and the worker
NextCourse ==
    \/ createClassTest
    \/ deleteEnrollment
    \/ sendToCourse
    \/ Dequeue
    \/ Complete
    \/ Steps

SpecCourse == Init /\ [][NextCourse]_vars

\* ================================================================ properties
Emailsof(rs) == {rs[i].email : i \in 1..Len(rs)}

CeilDiv(n, c) == (n + c - 1) \div c

RECURSIVE Flatten(_)
Flatten(chs) == IF chs = <<>> THEN <<>> ELSE Head(chs) \o Flatten(Tail(chs))

ChunkLens(chs) == [k \in 1..Len(chs) |-> Len(chs[k])]

\* the value the spec's e-mail client would report for a target: it succeeds
\* iff the call to the webhook completes
EmailOutcome == emailUp

C3_SummaryInvariant ==
    (pc = "returned" /\ ret.kind = "summary") =>
        /\ ret.total = ret.successful + ret.failed
        /\ ret.total = Len(ret.results)
        /\ ret.successful =
             Cardinality({i \in 1..Len(ret.results) : ret.results[i].success})

\* a batch of several chunks returned a summary with both kinds of result
C3_Witness ==
    /\ pc = "returned" /\ mode = "batch" /\ Len(chunks) > 1
    /\ ret.successful >= 1 /\ ret.failed >= 1

\* C4: a batch of n items and chunk size c is cut, in order, into ceil(n/c)
\* chunks, all but the last of c items, and the results it returns carry at
\* index i the e-mail of item i; 250 items by 100 give 100, 100, 50.
C4_ChunkPartition ==
    /\ mode = "batch" =>
        /\ Len(chunks) = CeilDiv(Len(items), chunkSize)
        /\ \A k \in 1..Len(chunks) - 1 : Len(chunks[k]) = chunkSize
        /\ chunks # <<>> => Len(chunks[Len(chunks)]) \in 1..chunkSize
        /\ Flatten(chunks) = items
        /\ pc = "returned" =>
             /\ Len(ret.results) = Len(items)
             /\ \A i \in 1..Len(items) : ret.results[i].email = items[i].email
    /\ pc = "idle" =>
        ChunkLens(Chunks([i \in 1..250 |-> Notif("a@x.com", "T", "B")], DefaultChunkSize))
            = <<100, 100, 50>>

\* three items by chunk size 2 returned, the results in the order of the input
C4_Witness ==
    /\ mode = "batch" /\ pc = "returned"
    /\ Len(items) = 3 /\ chunkSize = 2 /\ ChunkLens(chunks) = <<2, 1>>
    /\ items[1].email # items[2].email
    /\ Len(ret.results) = 3

\* C5 (as claimed): a batch of k chunks waits exactly k - 1 times, and never
\* after its last chunk.
C5_Original ==
    /\ (mode = "batch" /\ pc = "returned" /\ chunks # <<>>) => delays = Len(chunks) - 1
    /\ (mode = "batch" /\ pc = "delay") => ci < Len(chunks)

\* C6 (as claimed): the e-mails a course dispatch notifies are exactly those of
\* the existing students whose id lies in a range of the course's enrollment rows.
C6_Original ==
    (mode = "course" /\ pc = "returned" /\ snapshot.q = "ok") =>
        Emailsof(ret.results) = {s.email : s \in getAlreadyEnrolledStudents(arg)}

\* C7: a course dispatch whose enrollment query finds no row returns the zero
\* summary, and no fan-out, token lookup or gateway call is made for it.
C7_EmptyCourseShortCircuit ==
    (mode = "course" /\ snapshot.q = "ok" /\ snapshot.docs = <<>>) =>
        /\ pc = "returned"
        /\ ret = [kind |-> "summary", total |-> 0, successful |-> 0, failed |-> 0,
                  results |-> <<>>, error |-> "none"]
        /\ items = <<>> /\ chunks = <<>> /\ slots = <<>>

\* a course dispatch that found no enrollment row
C7_Witness ==
    /\ mode = "course" /\ pc = "returned"
    /\ snapshot.q = "ok" /\ snapshot.docs = <<>>

\* C8: a send-users job is dispatched with the e-mails, title and body its
\* producer received, and its result is a summary whose total is the
\* number of those e-mails.
C8_RoundTrip ==
    /\ \A k \in 1..Len(queue) :
         queue[k].name = "send-users" => queue[k].data = queue[k].req
    /\ active.name = "send-users" =>
         /\ active.data = active.req
         /\ pc # "idle" =>
              /\ Len(items) = Len(active.req.emails)
              /\ \A i \in 1..Len(items) :
                   /\ items[i].email = active.req.emails[i]
                   /\ items[i].title = active.req.title
                   /\ items[i].body = active.req.body
         /\ pc = "returned" =>
              /\ ret.kind = "summary"
              /\ ret.total = Len(active.req.emails)

\* the job enqueued for ["a@x.com", "b@x.com"], "T", "B" has returned total 2
C8_Witness ==
    /\ active.name = "send-users" /\ pc = "returned"
    /\ active.req = [emails |-> <<"a@x.com", "b@x.com">>, title |-> "T", body |-> "B"]
    /\ ret.total = 2

\* C9: in the fan-out of sendNotificationToUsers an exception of one target
\* becomes that target's {email, success: false, error}; the call does not
\* throw and every e-mail of the list has its own result.
C9_CaughtPerTarget ==
    mode \in {"users", "course", "role"} =>
        /\ pc # "threw"
        /\ (pc = "returned" /\ items # <<>>) =>
             /\ Len(ret.results) = Len(items)
             /\ \A i \in 1..Len(items) :
                  /\ ret.results[i].email = items[i].email
                  /\ slots[i].reply = "reject-nullish" =>
                       /\ ~ret.results[i].success
                       /\ ret.results[i].error = "caught"
                  /\ slots[i].reply = "ok" => ret.results[i].success
                  /\ slots[i].token = Null => ret.results[i].error = "no-token"

\* one target threw, its sibling was still delivered
C9_Witness ==
    /\ mode = "users" /\ pc = "returned" /\ Len(items) = 2
    /\ slots[1].reply = "reject-nullish" /\ ret.results[1].error = "caught"
    /\ slots[2].reply = "ok" /\ ret.results[2].success

\* C10 (as claimed): an exception of one item of a chunk never makes the
\* batch throw: the later chunks run and a summary is returned.
C10_Original ==
    mode = "batch" => pc # "threw"

KnownNames == {"send-user", "send-users", "send-course", "send-role", "send-batch"}

\* the payload table: the fields each job kind requires
WellFormedJob(job) ==
    CASE job.name = "send-user" ->
           job.data.email # Undefined /\ job.data.title # Undefined /\ job.data.body # Undefined
      [] job.name = "send-users" ->
           job.data.title # Undefined /\ job.data.body # Undefined
      [] job.name = "send-course" ->
           job.data.courseId # Undefined /\ job.data.title # Undefined
           /\ job.data.body # Undefined
      [] job.name = "send-role" ->
           job.data.role \in {"student", "teacher"} /\ job.data.title # Undefined
           /\ job.data.body # Undefined
      [] job.name = "send-batch" ->
           \A i \in 1..Len(job.data.notifications) :
              /\ ~job.data.notifications[i].nul
              /\ job.data.notifications[i].email # Undefined
              /\ job.data.notifications[i].title # Undefined
              /\ job.data.notifications[i].body # Undefined
      [] OTHER -> FALSE

\* C11 (as claimed): a request lacking a field its job kind requires adds no
\* job, so every job waiting in the queue or taken by the worker has all the
\* fields of the payload table.
C11_Original ==
    /\ \A k \in 1..Len(queue) : WellFormedJob(queue[k])
    /\ active # NoJob => WellFormedJob(active)

\* C12: the job is completed exactly when the handler returned and failed
\* exactly when it threw; a returned outcome with success false completes it.
C12_AckIffReturned ==
    [][(active # NoJob /\ active' = NoJob) =>
          /\ pc \in {"returned", "threw"}
          /\ (finished'.state = "completed") <=> (pc = "returned")
          /\ (finished'.state = "failed") <=> (pc = "threw")
          /\ pc = "returned" => finished'.returnvalue = ret]_vars

\* a send-user job whose outcome was unsuccessful has been completed
C12_Witness ==
    /\ finished.state = "completed"
    /\ finished.name = "send-user"
    /\ ~finished.returnvalue.success

\* C13: a job of an unknown kind makes the handler throw without any
\* dispatch, and the job ends failed, never completed.
C13_UnknownJobFails ==
    /\ (active # NoJob /\ active.name \notin KnownNames) =>
          /\ pc = "threw"
          /\ mode = "none" /\ items = <<>> /\ slots = <<>>
    /\ (finished.state # "none" /\ finished.name \notin KnownNames) =>
          finished.state = "failed"

\* a job of an unknown kind has ended failed
C13_Witness ==
    /\ finished.name = "foreign"
    /\ finished.state = "failed"

\* C17: the worker takes a job only while no job is being processed, and the
\* job being processed leaves only after its handler returned or threw.
C17_OneJobAtATime ==
    [][/\ Len(queue') < Len(queue) =>
            /\ active = NoJob /\ pc = "idle"
            /\ active' = Head(queue)
       /\ (active # NoJob /\ active' # active) =>
            /\ pc \in {"returned", "threw"}
            /\ active' = NoJob]_vars

\* a job is being processed while another one waits in the queue
C17_Witness ==
    /\ active # NoJob /\ pc = "fanout"
    /\ queue # <<>>

\* C14 (as claimed): a datastore failure while resolving a course or a role
\* makes the job's handler throw, and a channel-level error (gateway failure,
\* missing token) never does.
C14_Original ==
    /\ (active # NoJob /\ active.name \in {"send-course", "send-role"}
          /\ snapshot.q = "error") => pc = "threw"
    /\ (active # NoJob /\ pc = "threw") =>
          \E i \in 1..Len(slots) : slots[i].st = "rejected"

\* C15 (as amended): a producer's response is 'queued' (written after the job
\* was appended, the dispatch state untouched), a validation error that adds
\* nothing, or a server error when the add throws; it has no other field.
C15_ProducerResponses ==
    [][resp'.status # 0 =>
          /\ resp' \in {[status |-> 200, message |-> "queued"],
                        [status |-> 400, message |-> "missing"],
                        [status |-> 500, message |-> "error"]}
          /\ resp'.status = 200 =>
               /\ Len(queue') = Len(queue) + 1
               /\ SubSeq(queue', 1, Len(queue)) = queue
          /\ resp'.status = 400 => queue' = queue
          /\ UNCHANGED <<active, callVars>>]_vars

\* C15 (as claimed): the response is 'job accepted' or a validation error,
\* nothing else.
C15_Original ==
    resp.status \in {0, 200, 400}

\* a producer answered with a server error
C15_Witness ==
    resp = [status |-> 500, message |-> "error"]

\* C16: a chunk of a batch starts only when every item of the chunk before
\* it has settled; the items of one chunk are in flight together.
C16_ChunksSequential ==
    [][/\ (mode = "batch" /\ mode' = "batch" /\ ci >= 1 /\ ci' # ci) =>
            /\ ci' = ci + 1
            /\ \A i \in 1..Len(slots) : slots[i].st = "done"
            /\ Len(allResults) = ci * chunkSize
       /\ (mode = "batch" /\ pc = "fanout" /\ pc' = "delay") =>
            \A i \in 1..Len(slots) : slots[i].st = "done"]_vars

\* the second chunk is in flight, the two items of the first have settled
C16_Witness ==
    /\ mode = "batch" /\ pc = "fanout" /\ ci = 2
    /\ InFlight(slots) # {}
    /\ Len(allResults) = 2

C20_NoRetry ==
    \A i \in 1..Len(slots) :
       /\ slots[i].gw <= 1
       /\ slots[i].reply # "none" => slots[i].gw = 1
       /\ slots[i].token = Null => slots[i].gw = 0

\* a gateway call failed in transport and the dispatch returned after that one call
C20_Witness ==
    /\ mode = "user" /\ pc = "returned"
    /\ slots[1].reply = "transport" /\ slots[1].gw = 1
    /\ ~ret.success

\* C18 (as claimed): the e-mails a notification for a course is dispatched to
\* are the course's members when the worker takes the job, not when the job
\* was added.
C18_Original ==
    [][Len(queue') < Len(queue) =>
          ((Head(queue).name = "send-users" /\ Head(queue).data.data.type = "ct_created") =>
              {items'[i].email : i \in 1..Len(items')}
                 = getEnrolledStudentEmails(Head(queue).data.data.courseId))]_vars

\* C21: sendNotificationToUsers dispatches once per element of the list it
\* is given, duplicates included: total and the number of results are the
\* length of the list and result i is for element i.
C21_NoDeduplication ==
    (mode = "users" /\ snapshot.q = "given") =>
        /\ Len(items) = Len(snapshot.docs)
        /\ \A i \in 1..Len(items) : items[i].email = snapshot.docs[i]
        /\ Len(slots) = Len(snapshot.docs)
        /\ pc = "returned" =>
             /\ ret.total = Len(snapshot.docs)
             /\ Len(ret.results) = Len(snapshot.docs)
             /\ \A i \in 1..Len(ret.results) : ret.results[i].email = snapshot.docs[i]

\* the list [a, a] was notified twice: two gateway calls, total 2
C21_Witness ==
    /\ mode = "users" /\ pc = "returned"
    /\ snapshot.docs = <<"a@x.com", "a@x.com">>
    /\ slots[1].gw = 1 /\ slots[2].gw = 1
    /\ ret.total = 2 /\ ret.successful = 2

\* C23: getRole classifies as student exactly the addresses that, lower-cased
\* and trimmed, are u, seven digits, @student.cuet.ac.bd; as teacher the
\* allow-listed ones and those ending in @cuet.ac.bd; every other address,
\* the empty one included, as null.
C23_RoleClassification ==
    roleCall.role \notin {"none", "pending"} =>
        LET p == roleCall.parts IN
        roleCall.role =
            IF p.local \in {"u7", "U7"} /\ p.domain \in {"student", "STUDENT"}
            THEN "student"
            ELSE IF p.domain \in {"cuet", "CUET"}
                    \/ (p.local \in ListedLocals /\ p.domain = "gmail")
            THEN "teacher"
            ELSE "null"

\* " U2104001@Student.CUET.ac.bd" with a trailing tab was classified student
C23_Witness ==
    /\ roleCall.role = "student"
    /\ roleCall.parts = [lead |-> <<" ">>, local |-> "U7", domain |-> "STUDENT",
                         trail |-> <<"\t">>]


\* ---------------------------------------------------------------- enrollment
RowsOverlap(e, f) == e.startId <= f.endId /\ f.startId <= e.endId

JobType(j) == j.data.data.type

\* C22: in every reachable state no two enrollment rows of one course have
\* overlapping closed ranges [startId, endId] and every row has
\* startId <= endId, under any interleaving of addEnrollment, updateEnrollment
\* and deleteEnrollment requests.
\* The pre-save check and the insert are two steps: two requests that both
\* pass the check both write.
C22_Original ==
    \A e \in enrollments :
       /\ e.startId <= e.endId
       /\ \A f \in enrollments :
            (f.course = e.course /\ f.id # e.id) => ~RowsOverlap(e, f)

\* C25: the job addEnrollment adds names exactly the existing students whose
\* id is in the new range and whom no row of the course covered when the
\* handler read the course's rows, each once; no job is added for an empty set.
C25_OnlyNewlyEnrolled ==
    \A i \in 1..Len(queue) :
       JobType(queue[i]) = "enrollment" =>
          LET j == queue[i]
              covered == {st \in students :
                             \E e \in j.req.before :
                                st.studentId \in e.startId..e.endId}
              expected == {st.email : st \in
                             {x \in students \ covered :
                                 x.studentId \in j.req.doc.startId..j.req.doc.endId}}
          IN  /\ {j.data.emails[k] : k \in 1..Len(j.data.emails)} = expected
              /\ Len(j.data.emails) = Cardinality(expected)
              /\ expected # {}
              /\ j.name = QUEUE_EVENTS.SEND_USERS

C25_Witness ==
    \E i \in 1..Len(queue) :
       /\ JobType(queue[i]) = "enrollment"
       /\ queue[i].data.emails = <<"b@x.com">>
       /\ \E r \in reqs : r.rid = queue[i].req.rid /\ r.pc = "done"

\* C30: when the save of updateEnrollment fails, no enrollment notification
\* of that request is in the queue.
\* The handler adds the job before it saves.
C30_Original ==
    \A r \in reqs :
       (r.op = "updateEnrollment" /\ r.pc = "failed") =>
          \A i \in 1..Len(queue) :
             JobType(queue[i]) = "enrollment_updated" => queue[i].req.rid # r.rid


\* ------------------------------------------------- course data and invitations
\* C24: when the notification of a course, class-test or invitation handler
\* cannot be added to the queue, the handler's data change is stored all the
\* same and its answer is the success answer it gives when the job was added.
C24_EnqueueFailureTolerated ==
    [][/\ (\E c \in courses : \E d \in courses' : c.id = d.id /\ c.name # d.name)
            => resp' = Response(200, "updated")
       /\ (\E c \in courses : \A d \in courses' : c.id # d.id)
            => resp' = Response(200, "deleted")
       /\ (\E i \in invitations' : \A j \in invitations : i.id # j.id)
            => resp' = Response(201, "sent")
       /\ (\E m \in courseTeachers' : m \notin courseTeachers)
            => resp' = Response(201, "added")
       /\ (courses' = courses /\ \E e \in enrollments : e \notin enrollments')
            => resp' = Response(200, "deleted")
       /\ createClassTest => resp' = Response(201, "created")]_vars

C24_Witness ==
    /\ queue = <<>>
    /\ resp = Response(201, "sent")
    /\ \E i \in invitations : i \notin InitialInvitations /\ i.status = "pending"

\* C28: the status of an invitation changes only from pending, also when
\* accept and reject requests for it are handled concurrently.
\* Both handlers test the status they read and write it later by _id alone.
C28_Original ==
    [][\A i \in invitations : \A j \in invitations' :
          (i.id = j.id /\ i.status # j.status) => i.status = "pending"]_vars

\* C29: an accepted invitation whose acceptInvitation request is over has a
\* CourseTeacher membership of its course and recipient.
\* The status is saved before the membership is created and is not taken back
\* when the creation throws; a member who leaves keeps the accepted invitation.
C29_Original ==
    \A i \in invitations :
       (/\ i.status = "accepted"
        /\ ~\E r \in reqs : r.inv = i.id /\ r.pc = "member")
          => IsMember(i.course, i.recipient)


\* ---------------------------------------------------------------- job routing
\* the dispatch operation the worker's switch names for a job name
RouteOf(name) ==
    CASE name = "send-user" -> "user"
      [] name = "send-users" -> "users"
      [] name = "send-course" -> "course"
      [] name = "send-role" -> "role"
      [] name = "send-batch" -> "batch"
      [] OTHER -> "none"

\* C26: every job the producers add bears one of the five QUEUE_EVENTS names,
\* the worker runs for it the dispatch operation of that name, with the
\* target the job names, and the unknown-name branch is never taken.
C26_RoutedByName ==
    /\ \A i \in 1..Len(queue) : queue[i].name \in KnownNames
    /\ active # NoJob =>
          /\ active.name \in KnownNames
          /\ mode = RouteOf(active.name)
          /\ active.name = "send-course" => arg = active.data.courseId
          /\ active.name = "send-role" => arg = active.data.role
    /\ finished.state # "none" => finished.name \in KnownNames

C26_Witness ==
    /\ active # NoJob
    /\ active.name = "send-role"
    /\ mode = "role"
    /\ pc = "returned"


\* ---------------------------------------------------------------- push tokens
\* C27: the token a dispatch reads for an address is the token last stored for
\* it: the token of the last successful savePushToken, none after a
\* successful removePushToken.
\* The tokens are written to the MongoDB Student / Teacher documents and read
\* from the Firestore collection users, which no code of the program writes.
C27_Original ==
    [][\A i \in 1..Len(slots) :
          (/\ pc = "fanout" /\ pc' = "fanout"
           /\ Len(slots') = Len(slots)
           /\ slots[i].st = "lookup" /\ slots'[i].st # "lookup"
           /\ pushTokens[slots[i].email] # Unset)
             => slots'[i].token = IF pushTokens[slots[i].email] = Removed
                                  THEN Null
                                  ELSE pushTokens[slots[i].email]]_vars

====
